---- MODULE Spec2Model ----
(***************************************************************************)
(* A model of the reciprocity engine of                                    *)
(* src/project1_incentive_design_prototype.py: the credit ledger, the      *)
(* token-gated reads, the staked publishes with their dispute check, the   *)
(* per-round decay and the pool distribution; and of simulate(), the round *)
(* driver that exercises the engine.                                       *)
(*                                                                         *)
(* Numbers.  Credits, the pool and the contribution counters are Python    *)
(* ints.  The two places where the code goes through a Python float        *)
(* (IEEE-754 binary64) and truncates back to an int are modelled bit by    *)
(* bit: a float is a record [m, sh] whose value is Val(m) * 2^(-sh), m     *)
(* being its significand as a sequence of bits, most significant first.    *)
(* Reputation (a float that is only ever multiplied by 0.9) and quality    *)
(* scores are kept in fixed point: reputation in units of 1/10000, quality *)
(* in hundredths.                                                          *)
(***************************************************************************)
EXTENDS Integers, Sequences, FiniteSets, TLC

(***************************************************************************)
(* IEEE-754 binary64 arithmetic on the values the engine computes.         *)
(***************************************************************************)

\* Number of significand bits of a Python float.
Precision == 53

\* The float 0.0.
FloatZero == [m |-> <<>>, sh |-> 0]

\* The powers of two that fit a machine int, 2^0 .. 2^30.
Pow2Table ==
    << 1, 2, 4, 8, 16, 32, 64, 128, 256, 512, 1024, 2048, 4096, 8192, 16384,
       32768, 65536, 131072, 262144, 524288, 1048576, 2097152, 4194304,
       8388608, 16777216, 33554432, 67108864, 134217728, 268435456,
       536870912, 1073741824 >>

\* 2^n for 0 <= n <= 30.
Pow2(n) == Pow2Table[n + 1]

RECURSIVE BitsToInt(_, _, _)
\* The integer whose binary digits are m[lo..hi] (0 when the range is empty).
BitsToInt(m, lo, hi) ==
    IF lo > hi THEN 0
    ELSE IF lo = hi THEN m[lo]
    ELSE LET mid == (lo + hi) \div 2
         IN  BitsToInt(m, lo, mid) * Pow2(hi - mid) + BitsToInt(m, mid + 1, hi)

\* The number of binary digits of n >= 0.
BitLen(n) == CHOOSE k \in 0..30 : Pow2(k) > n /\ (k = 0 \/ Pow2(k - 1) <= n)

\* The low `width` binary digits of n >= 0, most significant first.
IntToBitsW(n, width) ==
    SubSeq([i \in 1..width |-> (n \div Pow2(width - i)) % 2], 1, width)

\* The binary digits of n >= 0, most significant first, no leading zero.
IntToBits(n) == IntToBitsW(n, BitLen(n))

\* m + 1 on bit sequences (a carry out of the top bit lengthens the sequence).
IncBits(m) ==
    LET zeros == {j \in 1..Len(m) : m[j] = 0} IN
    IF zeros = {} THEN <<1>> \o [i \in 1..Len(m) |-> 0]
    ELSE LET z == CHOOSE j \in zeros : \A k \in zeros : k <= j
         IN  SubSeq([i \in 1..Len(m) |->
                        IF i < z THEN m[i] ELSE IF i = z THEN 1 ELSE 0],
                    1, Len(m))

\* TRUE iff some bit of m at a position >= i is set.
AnyBitFrom(m, i) == \E j \in i..Len(m) : m[j] = 1

\* Round an exact value Val(m) * 2^(-sh) to Precision significant bits,
\* to nearest, ties to even.
RoundBits(m, sh) ==
    IF Len(m) <= Precision THEN [m |-> m, sh |-> sh]
    ELSE LET kept    == SubSeq(m, 1, Precision)
             dropped == Len(m) - Precision
             guard   == m[Precision + 1]
             sticky  == AnyBitFrom(m, Precision + 2)
             up      == guard = 1 /\ (sticky \/ kept[Precision] = 1)
         IN  [m |-> IF up THEN IncBits(kept) ELSE kept, sh |-> sh - dropped]

\* The least e >= 0 with a * 2^e >= b (0 < a <= b).
NormShift(a, b) == CHOOSE e \in 0..BitLen(b) :
                      a * Pow2(e) >= b /\ (e = 0 \/ a * Pow2(e - 1) < b)

RECURSIVE DivChunks(_, _, _)
\* Long division: the next n binary digits of r / b (0 <= r < b < 2^15),
\* produced 15 digits at a time so that every intermediate value fits a
\* machine int, and the remainder left after them.
DivChunks(r, b, n) ==
    IF n = 0 THEN [bits |-> <<>>, rem |-> r]
    ELSE LET w    == IF n > 15 THEN 15 ELSE n
             num  == r * Pow2(w)
             rest == DivChunks(num % b, b, n - w)
         IN  [bits |-> IntToBitsW(num \div b, w) \o rest.bits, rem |-> rest.rem]

\* The float a / b for integers 0 <= a <= b, b > 0: Python's true division,
\* correctly rounded.
FloatDiv(a, b) ==
    IF a = 0 THEN FloatZero
    ELSE LET e    == NormShift(a, b)
             q    == DivChunks(a * Pow2(e) - b, b, Precision - 1)
             bits == <<1>> \o q.bits
             up   == 2 * q.rem > b \/ (2 * q.rem = b /\ bits[Precision] = 1)
         IN  [m |-> IF up THEN IncBits(bits) ELSE bits,
              sh |-> Precision - 1 + e]

RECURSIVE MulChunks(_, _, _, _)
\* The bits of Val(m[1..hi]) * p + carry (0 <= p < 2^15), 15 bits at a
\* time from the least significant end.
MulChunks(m, p, hi, carry) ==
    IF hi = 0 THEN IntToBits(carry)
    ELSE LET lo == IF hi > 15 THEN hi - 15 + 1 ELSE 1
             v  == BitsToInt(m, lo, hi) * p + carry
             w  == hi - lo + 1
         IN  MulChunks(m, p, lo - 1, v \div Pow2(w)) \o IntToBitsW(v % Pow2(w), w)

\* The float n * x for an integer n >= 0 (the int converts exactly) and a
\* float x >= 0: the exact product, rounded once.
FloatMulInt(n, x) ==
    IF n = 0 \/ x.m = <<>> THEN FloatZero
    ELSE RoundBits(MulChunks(x.m, n, Len(x.m), 0), x.sh)

\* int(x) for a float x >= 0: truncation.
FloatToInt(x) ==
    IF x.sh >= Len(x.m) THEN 0
    ELSE IF x.sh >= 0 THEN BitsToInt(x.m, 1, Len(x.m) - x.sh)
    ELSE BitsToInt(x.m, 1, Len(x.m)) * Pow2(0 - x.sh)

\* x <= y for floats x, y >= 0 with normalised significands.
FloatLeq(x, y) ==
    IF x.m = <<>> THEN TRUE
    ELSE IF y.m = <<>> THEN FALSE
    ELSE LET tx == Len(x.m) - x.sh
             ty == Len(y.m) - y.sh
             n  == IF Len(x.m) > Len(y.m) THEN Len(x.m) ELSE Len(y.m)
             bx == [i \in 1..n |-> IF i <= Len(x.m) THEN x.m[i] ELSE 0]
             by == [i \in 1..n |-> IF i <= Len(y.m) THEN y.m[i] ELSE 0]
             differ == {i \in 1..n : bx[i] # by[i]}
         IN  IF tx # ty THEN tx < ty
             ELSE \/ differ = {}
                  \/ LET d == CHOOSE i \in differ : \A j \in differ : i <= j
                     IN  bx[d] < by[d]

(***************************************************************************)
(* The engine: configuration, population and state.                        *)
(***************************************************************************)

\* Bound of the model: the number of calls and clock ticks in one run.
MaxSteps == 3

\* Clinic.reputation starts at 1.0; reputations are kept in units of 1/10000.
InitialReputation == 10000

\* The clinics registered with the engine and the patients they share.
ClinicIds == {"C000", "C001"}
Patients  == {"P0000", "P0001"}

\* The clinics simulate() draws as free riders.
FreeRiders == {"C001"}

\* Credits a clinic is registered with.
StarterCredits == {1, 5}

\* quality_score of an entry, in hundredths: below and at the dispute
\* threshold of the configurations.
QualityScores == {30, 45}

\* ttl_seconds a token is issued with, in clock ticks.
Ttls == {0, 1}

\* The configuration simulate() builds its engine with.  match_pool_rate is
\* the float rate_num / rate_den; dispute_threshold is in hundredths.
\* dispute_probability lies strictly between 0 and 1, so that the draw of
\* publish_history can fall either way: the draw is an input of the action.
SimConfig ==
    [read_cost |-> 3, publish_reward |-> 4, publish_stake |-> 2,
     decay_per_round |-> 1, min_credits_to_read |-> 3,
     dispute_threshold |-> 45, slash_amount |-> 6,
     rate_num |-> 1, rate_den |-> 2]

\* Configurations an engine is constructed with: simulate()'s, and one whose
\* read cost exceeds the minimum balance to read and whose stake exceeds
\* the reward.
Configs ==
    { SimConfig,
      [read_cost |-> 4, publish_reward |-> 1, publish_stake |-> 2,
       decay_per_round |-> 2, min_credits_to_read |-> 1,
       dispute_threshold |-> 45, slash_amount |-> 1,
       rate_num |-> 1, rate_den |-> 1] }

VARIABLES
    cfg,                \* the engine's configuration, fixed at construction
    clinics,            \* clinic id -> Clinic
    patient_histories,  \* patient id -> sequence of HistoryEntry
    access_log,         \* sequence of <<time, clinic id, patient id>>
    pool_balance,       \* the shared pool
    now,                \* time.time()
    call,               \* the last call made on the engine and what it returned
    steps,              \* calls and clock ticks so far
    sim,                \* simulate(): its position, loop variables and totals
    twin                \* a second run of simulate(), side by side with the one in the variables

vars == <<cfg, clinics, patient_histories, access_log, pool_balance, now, call,
          steps, sim, twin>>

\* A Clinic as simulate() registers it.
NewClinic(credits, free_ride, low_quality) ==
    [credits |-> credits, reputation |-> InitialReputation, opted_in |-> TRUE,
     free_ride |-> free_ride, low_quality |-> low_quality,
     last_round_contribution |-> 0]

\* A HistoryEntry as its constructor leaves it: stake defaults to 0.
HistoryEntry(patient_id, author_clinic_id, quality_score) ==
    [patient_id |-> patient_id, author_clinic_id |-> author_clinic_id,
     quality_score |-> quality_score, stake |-> 0]

\* The record of a call: the operation, the clinic it was made for, the
\* success flag publish_history returns (for read_history: whether the read
\* was charged) and the list read_history returns.
Call(op, clinic_id, ok, returned) ==
    [op |-> op, clinic_id |-> clinic_id, ok |-> ok, returned |-> returned]

PlainCall(op) == Call(op, "", FALSE, <<>>)

Min(a, b) == IF a < b THEN a ELSE b
Max(a, b) == IF a > b THEN a ELSE b

RECURSIVE SumOver(_, _)
\* The sum of f[x] over the x in S.
SumOver(f, S) ==
    IF S = {} THEN 0
    ELSE LET x == CHOOSE y \in S : TRUE IN f[x] + SumOver(f, S \ {x})

\* No token in hand.
NoToken == [patient_id |-> "", issued_to_clinic_id |-> "", expires_at |-> 0]

\* The float num / den of two ints, held as the pair it is computed from.
Quotient(num, den) == [num |-> num, den |-> den]

\* No result record yet.
NoResult == [opt_in_rate |-> FloatZero, total_reads |-> 0,
             total_publishes |-> 0, avg_credits |-> Quotient(0, 1),
             avg_reputation |-> Quotient(0, 1), remaining_clinics |-> 0]

\* The locals of simulate() at position pc.
SimAt(pc) ==
    [pc |-> pc, rounds |-> 0, round |-> 0, turn |-> 0, token |-> NoToken,
     total_reads |-> 0, total_publishes |-> 0, expired |-> FALSE,
     result |-> NoResult]

\* The engine used through its own interface: simulate() is not running.
SimIdle == SimAt("idle")

\* No second run.  When two runs are compared, run is the one whose state
\* is in the variables (1 or 2), other holds the state of the other one,
\* ahead tells that the first run has executed a statement that the second
\* has not yet, and draw is what that statement drew.
TwinOff == [run |-> 0, ahead |-> FALSE, draw |-> <<>>, other |-> <<>>]

Init ==
    /\ sim = SimIdle
    /\ twin = TwinOff
    /\ cfg \in Configs
    /\ \E credits \in [ClinicIds -> StarterCredits] :
          clinics = [c \in ClinicIds |->
                       NewClinic(credits[c], c \in FreeRiders, FALSE)]
    /\ patient_histories = [p \in Patients |-> <<>>]
    /\ access_log = <<>>
    /\ pool_balance = 0
    /\ now = 0
    /\ call = PlainCall("init")
    /\ steps = 0

(***************************************************************************)
(* Tokens and reads.                                                       *)
(***************************************************************************)

\* issue_patient_token at time t.
issue_patient_token(patient_id, clinic_id, ttl_seconds, t) ==
    [patient_id |-> patient_id, issued_to_clinic_id |-> clinic_id,
     expires_at |-> t + ttl_seconds]

\* The tokens issued up to now.
IssuedTokens ==
    { issue_patient_token(p, c, ttl, t) :
        p \in Patients, c \in DOMAIN clinics, ttl \in Ttls, t \in 0..now }

can_read(clinic_id, token) ==
    LET clinic == clinics[clinic_id] IN
    IF ~clinic.opted_in THEN FALSE
    ELSE IF token.issued_to_clinic_id # clinic_id THEN FALSE
    ELSE IF now > token.expires_at THEN FALSE
    ELSE IF clinic.credits < cfg.min_credits_to_read THEN FALSE
    ELSE TRUE

\* PoolFeeOf with the fee rounded up instead of truncated.
PoolFeeRoundedUp(config) ==
    (config.read_cost * config.rate_num + config.rate_den - 1) \div config.rate_den

\* int(read_cost * match_pool_rate) under the configuration config.
PoolFeeOf(config) ==
    FloatToInt(FloatMulInt(config.read_cost,
                           FloatDiv(config.rate_num, config.rate_den)))

PoolFee == PoolFeeOf(cfg)

\* read_history without its own balance check against read_cost.
read_history_unchecked(clinic_id, token) ==
    IF ~can_read(clinic_id, token)
    THEN /\ call' = Call("read_history", clinic_id, FALSE, <<>>)
         /\ UNCHANGED <<cfg, clinics, patient_histories, access_log, pool_balance, now>>
    ELSE /\ clinics' = [clinics EXCEPT ![clinic_id].credits = @ - cfg.read_cost]
         /\ pool_balance' = pool_balance + PoolFee
         /\ access_log' = Append(access_log, <<now, clinic_id, token.patient_id>>)
         /\ call' = Call("read_history", clinic_id, TRUE,
                         patient_histories[token.patient_id])
         /\ UNCHANGED <<cfg, patient_histories, now>>

read_history(clinic_id, token) ==
    IF ~can_read(clinic_id, token) \/ clinics[clinic_id].credits < cfg.read_cost
    THEN /\ call' = Call("read_history", clinic_id, FALSE, <<>>)
         /\ UNCHANGED <<cfg, clinics, patient_histories, access_log, pool_balance, now>>
    ELSE /\ clinics' = [clinics EXCEPT ![clinic_id].credits = @ - cfg.read_cost]
         /\ pool_balance' = pool_balance + PoolFee
         /\ access_log' = Append(access_log, <<now, clinic_id, token.patient_id>>)
         /\ call' = Call("read_history", clinic_id, TRUE,
                         patient_histories[token.patient_id])
         /\ UNCHANGED <<cfg, patient_histories, now>>

(***************************************************************************)
(* Publishes and the dispute check.                                        *)
(***************************************************************************)

\* maybe_dispute with the slash not clamped to the author's balance.
maybe_dispute_unclamped(cl, entry) ==
    IF entry.quality_score < cfg.dispute_threshold
    THEN LET author == entry.author_clinic_id
         IN  [cl EXCEPT ![author].credits = @ - cfg.slash_amount,
                        ![author].reputation = (@ * 9) \div 10]
    ELSE cl

\* maybe_dispute penalising whatever the quality of the entry.
maybe_dispute_any_quality(cl, entry) ==
    LET author  == entry.author_clinic_id
        penalty == Min(cfg.slash_amount, cl[author].credits)
    IN  [cl EXCEPT ![author].credits = @ - penalty,
                   ![author].reputation = (@ * 9) \div 10]

\* maybe_dispute penalising an entry whose quality equals the threshold too.
maybe_dispute_inclusive(cl, entry) ==
    IF entry.quality_score <= cfg.dispute_threshold
    THEN LET author  == entry.author_clinic_id
             penalty == Min(cfg.slash_amount, cl[author].credits)
         IN  [cl EXCEPT ![author].credits = @ - penalty,
                        ![author].reputation = (@ * 9) \div 10]
    ELSE cl

\* _maybe_dispute on the clinic table cl.
maybe_dispute(cl, entry) ==
    IF entry.quality_score < cfg.dispute_threshold
    THEN LET author  == entry.author_clinic_id
             penalty == Min(cfg.slash_amount, cl[author].credits)
         IN  [cl EXCEPT ![author].credits = @ - penalty,
                        ![author].reputation = (@ * 9) \div 10]
    ELSE cl

\* publish_history without the check of the balance against the stake.
publish_history_unfunded(clinic_id, entry, draw) ==
    LET clinic == clinics[clinic_id] IN
    IF ~clinic.opted_in
    THEN /\ call' = Call("publish_history", clinic_id, FALSE, <<>>)
         /\ UNCHANGED <<cfg, clinics, patient_histories, access_log, pool_balance, now>>
    ELSE LET staked == [entry EXCEPT !.stake = cfg.publish_stake]
             paid   == [clinics EXCEPT
                          ![clinic_id].credits =
                              (@ - cfg.publish_stake) + cfg.publish_reward,
                          ![clinic_id].last_round_contribution = @ + 1]
         IN  /\ patient_histories' =
                    [patient_histories EXCEPT
                       ![entry.patient_id] = Append(@, staked)]
             /\ clinics' = IF draw THEN maybe_dispute(paid, staked) ELSE paid
             /\ call' = Call("publish_history", clinic_id, TRUE, <<>>)
             /\ UNCHANGED <<cfg, access_log, pool_balance, now>>

\* publish_history that charges the stake but leaves entry.stake as it came.
publish_history_unstaked(clinic_id, entry, draw) ==
    LET clinic == clinics[clinic_id] IN
    IF ~clinic.opted_in \/ clinic.credits < cfg.publish_stake
    THEN /\ call' = Call("publish_history", clinic_id, FALSE, <<>>)
         /\ UNCHANGED <<cfg, clinics, patient_histories, access_log, pool_balance, now>>
    ELSE LET paid == [clinics EXCEPT
                        ![clinic_id].credits =
                            (@ - cfg.publish_stake) + cfg.publish_reward,
                        ![clinic_id].last_round_contribution = @ + 1]
         IN  /\ patient_histories' =
                    [patient_histories EXCEPT
                       ![entry.patient_id] = Append(@, entry)]
             /\ clinics' = IF draw THEN maybe_dispute(paid, entry) ELSE paid
             /\ call' = Call("publish_history", clinic_id, TRUE, <<>>)
             /\ UNCHANGED <<cfg, access_log, pool_balance, now>>

\* publish_history that stores the entry as the patient's whole history.
publish_history_rewriting(clinic_id, entry, draw) ==
    LET clinic == clinics[clinic_id] IN
    IF ~clinic.opted_in \/ clinic.credits < cfg.publish_stake
    THEN /\ call' = Call("publish_history", clinic_id, FALSE, <<>>)
         /\ UNCHANGED <<cfg, clinics, patient_histories, access_log, pool_balance, now>>
    ELSE LET staked == [entry EXCEPT !.stake = cfg.publish_stake]
             paid   == [clinics EXCEPT
                          ![clinic_id].credits =
                              (@ - cfg.publish_stake) + cfg.publish_reward,
                          ![clinic_id].last_round_contribution = @ + 1]
         IN  /\ patient_histories' =
                    [patient_histories EXCEPT ![entry.patient_id] = <<staked>>]
             /\ clinics' = IF draw THEN maybe_dispute(paid, staked) ELSE paid
             /\ call' = Call("publish_history", clinic_id, TRUE, <<>>)
             /\ UNCHANGED <<cfg, access_log, pool_balance, now>>

publish_history(clinic_id, entry, draw) ==
    LET clinic == clinics[clinic_id] IN
    IF ~clinic.opted_in \/ clinic.credits < cfg.publish_stake
    THEN /\ call' = Call("publish_history", clinic_id, FALSE, <<>>)
         /\ UNCHANGED <<cfg, clinics, patient_histories, access_log, pool_balance, now>>
    ELSE LET staked == [entry EXCEPT !.stake = cfg.publish_stake]
             paid   == [clinics EXCEPT
                          ![clinic_id].credits =
                              (@ - cfg.publish_stake) + cfg.publish_reward,
                          ![clinic_id].last_round_contribution = @ + 1]
         IN  /\ patient_histories' =
                    [patient_histories EXCEPT
                       ![entry.patient_id] = Append(@, staked)]
             /\ clinics' = IF draw THEN maybe_dispute(paid, staked) ELSE paid
             /\ call' = Call("publish_history", clinic_id, TRUE, <<>>)
             /\ UNCHANGED <<cfg, access_log, pool_balance, now>>

(***************************************************************************)
(* The per-round operations.                                               *)
(***************************************************************************)

\* decay_credits charging every clinic with a balance, opted in or not.
decay_credits_everyone ==
    /\ clinics' = [c \in DOMAIN clinics |->
                     IF clinics[c].credits > 0
                     THEN [clinics[c] EXCEPT
                             !.credits = Max(0, @ - cfg.decay_per_round)]
                     ELSE clinics[c]]
    /\ call' = PlainCall("decay_credits")
    /\ UNCHANGED <<cfg, patient_histories, access_log, pool_balance, now>>

decay_credits ==
    /\ clinics' = [c \in DOMAIN clinics |->
                     IF clinics[c].opted_in /\ clinics[c].credits > 0
                     THEN [clinics[c] EXCEPT
                             !.credits = Max(0, @ - cfg.decay_per_round)]
                     ELSE clinics[c]]
    /\ call' = PlainCall("decay_credits")
    /\ UNCHANGED <<cfg, patient_histories, access_log, pool_balance, now>>

\* The clinics with a contribution in this round.
Contributors == {c \in DOMAIN clinics : clinics[c].last_round_contribution > 0}

\* Share rounded up instead of truncated.
ShareRoundedUp(pool, contribution, total_contribs) ==
    (pool * contribution + total_contribs - 1) \div total_contribs

\* int(pool_balance * (last_round_contribution / total_contribs))
Share(pool, contribution, total_contribs) ==
    FloatToInt(FloatMulInt(pool, FloatDiv(contribution, total_contribs)))

\* distribute_pool paying the shares without emptying the pool.
distribute_pool_keeping_pool ==
    /\ IF Contributors = {} \/ pool_balance <= 0
       THEN /\ clinics' = [c \in DOMAIN clinics |->
                             [clinics[c] EXCEPT !.last_round_contribution = 0]]
            /\ UNCHANGED pool_balance
       ELSE LET total_contribs ==
                    SumOver([c \in DOMAIN clinics |->
                               clinics[c].last_round_contribution], Contributors)
            IN  /\ clinics' =
                      [c \in DOMAIN clinics |->
                         [clinics[c] EXCEPT
                            !.credits =
                                IF c \in Contributors
                                THEN @ + Share(pool_balance,
                                               clinics[c].last_round_contribution,
                                               total_contribs)
                                ELSE @,
                            !.last_round_contribution = 0]]
                /\ UNCHANGED pool_balance
    /\ call' = PlainCall("distribute_pool")
    /\ UNCHANGED <<cfg, patient_histories, access_log, now>>

distribute_pool ==
    /\ IF Contributors = {} \/ pool_balance <= 0
       THEN /\ clinics' = [c \in DOMAIN clinics |->
                             [clinics[c] EXCEPT !.last_round_contribution = 0]]
            /\ UNCHANGED pool_balance
       ELSE LET total_contribs ==
                    SumOver([c \in DOMAIN clinics |->
                               clinics[c].last_round_contribution], Contributors)
            IN  /\ clinics' =
                      [c \in DOMAIN clinics |->
                         [clinics[c] EXCEPT
                            !.credits =
                                IF c \in Contributors
                                THEN @ + Share(pool_balance,
                                               clinics[c].last_round_contribution,
                                               total_contribs)
                                ELSE @,
                            !.last_round_contribution = 0]]
                /\ pool_balance' = 0
    /\ call' = PlainCall("distribute_pool")
    /\ UNCHANGED <<cfg, patient_histories, access_log, now>>

(***************************************************************************)
(* The round driver's opt-out decision and the passage of time.            *)
(***************************************************************************)

\* Balance under which simulate() lets a clinic consider opting out.
OptOutCredits == 3
\* Reputation (0.7) under which a clinic that is no free rider opts out.
OptOutReputation == 7000

opt_out(clinic_id) ==
    LET clinic == clinics[clinic_id] IN
    /\ clinic.opted_in
    /\ clinic.credits < OptOutCredits
    /\ clinic.free_ride \/ clinic.reputation < OptOutReputation
    /\ clinics' = [clinics EXCEPT ![clinic_id].opted_in = FALSE]
    /\ call' = Call("opt_out", clinic_id, FALSE, <<>>)
    /\ UNCHANGED <<cfg, patient_histories, access_log, pool_balance, now>>

\* time.time() moves on between two calls.
tick ==
    /\ now' = now + 1
    /\ call' = PlainCall("tick")
    /\ UNCHANGED <<cfg, clinics, patient_histories, access_log, pool_balance>>

\* One more step of a run of at most MaxSteps steps.
Tally == steps < MaxSteps /\ steps' = steps + 1 /\ UNCHANGED <<sim, twin>>

Read ==
    /\ Tally
    /\ \E c \in DOMAIN clinics : \E token \in IssuedTokens : read_history(c, token)

Publish ==
    /\ Tally
    /\ \E c \in DOMAIN clinics, p \in Patients, a \in DOMAIN clinics,
          q \in QualityScores, draw \in BOOLEAN :
           publish_history(c, HistoryEntry(p, a, q), draw)

Decay == Tally /\ decay_credits

Distribute == Tally /\ distribute_pool

OptOut == Tally /\ \E c \in DOMAIN clinics : opt_out(c)

Tick == Tally /\ tick

Next ==
    \/ Read
    \/ Publish
    \/ Decay
    \/ Distribute
    \/ OptOut
    \/ Tick

Spec == Init /\ [][Next]_vars

(***************************************************************************)
(* The end of a round: distribute_pool applied to the states a round can   *)
(* leave behind.  Under simulate()'s configuration every read pays one     *)
(* credit into the pool and every publish counts one contribution, so a    *)
(* round of `reads` reads and contrib[c] publishes by each clinic c ends   *)
(* in the state PoolInit draws (from starter credits high enough to pay    *)
(* for them).                                                              *)
(***************************************************************************)

\* Bounds of the rounds drawn: reads, and publishes, in one round; publishes
\* of one clinic in one round.
MaxPool         == 22
MaxContribution == 15

PoolClinics == <<"C000", "C001", "C002">>

Repeat(x, n) == [i \in 1..n |-> x]

PoolInit ==
    /\ sim = SimIdle
    /\ twin = TwinOff
    /\ cfg = SimConfig
    /\ \E fee \in {PoolFeeOf(SimConfig)},
          contrib \in [1..Len(PoolClinics) -> 0..MaxContribution],
          reads \in 0..MaxPool :
          /\ SumOver(contrib, 1..Len(PoolClinics)) <= MaxPool
          /\ clinics =
                [c \in {PoolClinics[i] : i \in 1..Len(PoolClinics)} |->
                   LET i == CHOOSE j \in 1..Len(PoolClinics) : PoolClinics[j] = c
                   IN  [NewClinic(10, FALSE, FALSE) EXCEPT
                          !.last_round_contribution = contrib[i]]]
          /\ patient_histories =
                [p \in Patients |->
                   IF p = "P0000"
                   THEN Repeat([HistoryEntry(p, PoolClinics[1], 45) EXCEPT
                                  !.stake = cfg.publish_stake], contrib[1])
                        \o Repeat([HistoryEntry(p, PoolClinics[2], 45) EXCEPT
                                     !.stake = cfg.publish_stake], contrib[2])
                        \o Repeat([HistoryEntry(p, PoolClinics[3], 45) EXCEPT
                                     !.stake = cfg.publish_stake], contrib[3])
                   ELSE <<>>]
          /\ access_log = Repeat(<<0, PoolClinics[1], "P0000">>, reads)
          /\ pool_balance = reads * fee
    /\ now = 0
    /\ call = PlainCall("init")
    /\ steps = 0

\* A round ends with one call of distribute_pool.
PoolNext == steps = 0 /\ Distribute

PoolSpec == PoolInit /\ [][PoolNext]_vars

(***************************************************************************)
(* simulate(): the round driver.  Each round calls decay_credits, then     *)
(* gives every clinic that is still opted in its turn (a read attempt, a   *)
(* publish attempt, an opt-out decision), then calls distribute_pool.      *)
(* sim.pc is the statement simulate() is about to execute; the values      *)
(* random draws take are inputs of the steps.                              *)
(***************************************************************************)

\* Rounds of a run.
MaxRounds == 2
\* Times the clock is seen to jump during a run.
MaxJumps == 1

\* ttl_seconds issue_patient_token defaults to, which simulate() relies on.
DefaultTtl == 3600
\* The clock moving on by more than a token lives: time that passes in
\* smaller amounts only shifts the times written to the access log.
ClockJump == DefaultTtl + 1

\* engine.clinics in insertion order, the order simulate() iterates in.
ClinicOrder == <<"C000", "C001">>

\* patients, for n_patients = 1.
SimPatients == {"P0000"}

\* random.uniform(0.6, 1.0) of a detailed summary, in hundredths.
HighQualityScores == {80}

\* The draws of one step: coin is the outcome of a comparison
\* random.random() < p, pid a random.choice(patients), low the outcome of
\* random.random() < 0.6, quality a random.uniform(...), dispute the
\* outcome of random.random() < dispute_probability inside publish_history.
Draw(coin, pid, low, quality, dispute) ==
    [coin |-> coin, pid |-> pid, low |-> low, quality |-> quality,
     dispute |-> dispute]

NoDraw == Draw(FALSE, "", FALSE, 0, FALSE)

\* The clinic whose turn it is.
TurnClinic == ClinicOrder[sim.turn]

\* TurnAfter without the check of opted_in: every clinic gets its turn.
TurnAfterAnyone(cl, i) ==
    IF i < Len(ClinicOrder) /\ ClinicOrder[i + 1] \in DOMAIN cl
    THEN i + 1 ELSE 0

\* The first clinic after position i of the snapshot that is opted in in
\* the table cl (`if not clinic.opted_in: continue`), 0 when there is none.
TurnAfter(cl, i) ==
    LET later == {j \in (i + 1)..Len(ClinicOrder) :
                     /\ ClinicOrder[j] \in DOMAIN cl
                     /\ cl[ClinicOrder[j]].opted_in}
    IN  IF later = {} THEN 0
        ELSE CHOOSE j \in later : \A k \in later : j <= k

\* simulate() moving on from clinic i, the clinics being cl.
Advance(cl, i) ==
    LET j == TurnAfter(cl, i)
    IN  [sim EXCEPT !.turn = j,
                    !.pc = IF j = 0 THEN "distribute" ELSE "read",
                    !.token = NoToken]

\* opt_in_rate(), the float count / len.
opt_in_rate ==
    IF DOMAIN clinics = {} THEN FloatZero
    ELSE FloatDiv(Cardinality({c \in DOMAIN clinics : clinics[c].opted_in}),
                  Cardinality(DOMAIN clinics))

\* The record simulate() returns.  The reputations summed for
\* avg_reputation are in units of 1/10000.
Result ==
    [opt_in_rate       |-> opt_in_rate,
     total_reads       |-> sim.total_reads,
     total_publishes   |-> sim.total_publishes,
     avg_credits       |-> Quotient(SumOver([c \in DOMAIN clinics |->
                                               clinics[c].credits],
                                            DOMAIN clinics),
                                    Cardinality(DOMAIN clinics)),
     avg_reputation    |-> Quotient(SumOver([c \in DOMAIN clinics |->
                                               clinics[c].reputation],
                                            DOMAIN clinics),
                                    Cardinality(DOMAIN clinics)
                                       * InitialReputation),
     remaining_clinics |-> Cardinality({c \in DOMAIN clinics :
                                           clinics[c].opted_in})]

\* The engine simulate() builds and the clinics it registers: every clinic
\* with the same starter credits, its archetype drawn; rounds to run.
Registered(rounds) ==
    /\ cfg = SimConfig
    /\ \E starter \in StarterCredits :
       \E free \in SUBSET ClinicIds : \E low \in SUBSET (ClinicIds \ free) :
          clinics = [c \in ClinicIds |->
                       NewClinic(starter, c \in free, c \in low)]
    /\ patient_histories = [p \in Patients |-> <<>>]
    /\ access_log = <<>>
    /\ pool_balance = 0
    /\ now = 0
    /\ call = PlainCall("init")
    /\ steps = 0
    /\ sim = [SimAt("decay") EXCEPT !.rounds = rounds]

SimInit == Registered(MaxRounds) /\ twin = TwinOff

\* StartRound without the call of decay_credits.
StartRoundWithoutDecay ==
    /\ sim.pc = "decay"
    /\ sim.round < sim.rounds
    /\ sim' = Advance(clinics, 0)
    /\ UNCHANGED <<cfg, clinics, patient_histories, access_log, pool_balance,
                   now, call>>

\* for _ in range(rounds): engine.decay_credits()
StartRound ==
    /\ sim.pc = "decay"
    /\ sim.round < sim.rounds
    /\ decay_credits
    /\ sim' = Advance(clinics', 0)

\* The draws of a read attempt: the coin, and a patient when it falls.
ReadDraws ==
    {Draw(FALSE, "", FALSE, 0, FALSE)}
    \cup {Draw(TRUE, p, FALSE, 0, FALSE) : p \in SimPatients}

\* if random.random() < 0.55: pid = ...; token = issue_patient_token(...)
IssueToken(d) ==
    /\ sim.pc = "read"
    /\ sim' = IF d.coin
              THEN [sim EXCEPT
                      !.pc = "reading",
                      !.token = issue_patient_token(d.pid, TurnClinic,
                                                    DefaultTtl, now)]
              ELSE [sim EXCEPT !.pc = "publish"]
    /\ UNCHANGED <<cfg, clinics, patient_histories, access_log, pool_balance,
                   now, call>>

\* hist = engine.read_history(...); if hist: total_reads += 1
ReadAttempt ==
    /\ sim.pc = "reading"
    /\ read_history(TurnClinic, sim.token)
    /\ sim' = [sim EXCEPT
                 !.pc = "publish",
                 !.token = NoToken,
                 !.expired = @ \/ now > sim.token.expires_at,
                 !.total_reads = IF call'.returned # <<>> THEN @ + 1 ELSE @]

\* needs_credits = clinic.credits < 6
needs_credits(clinic) == clinic.credits < 6

\* PublishAttempt with the dispute draw of publish_history taken from the
\* clock instead of the random generator.
PublishAttemptClockDraw(d) ==
    LET clinic == clinics[TurnClinic]
        will_publish ==
            ~clinic.free_ride /\ (needs_credits(clinic) \/ d.coin)
    IN  /\ sim.pc = "publish"
        /\ IF will_publish
           THEN /\ d.quality \in (IF clinic.low_quality /\ d.low
                                  THEN QualityScores ELSE HighQualityScores)
                /\ publish_history(TurnClinic,
                                   HistoryEntry(d.pid, TurnClinic, d.quality),
                                   now % 2 = 1)
                /\ sim' = [sim EXCEPT
                             !.pc = "optout",
                             !.total_publishes =
                                 IF call'.ok THEN @ + 1 ELSE @]
           ELSE /\ sim' = [sim EXCEPT !.pc = "optout"]
                /\ UNCHANGED <<cfg, clinics, patient_histories, access_log,
                               pool_balance, now, call>>

\* The draws of a publish attempt by the clinic whose turn it is: the
\* propensity coin when credits are not needed, then a patient, the
\* low-detail coin of a low-quality clinic, a quality and the dispute draw.
PublishDraws ==
    LET clinic == clinics[TurnClinic]
        coins  == IF clinic.free_ride THEN {FALSE}
                  ELSE IF needs_credits(clinic) THEN {TRUE}
                  ELSE BOOLEAN
        lows   == IF clinic.low_quality THEN BOOLEAN ELSE {FALSE}
    IN  {Draw(FALSE, "", FALSE, 0, FALSE) : b \in coins \ {TRUE}}
        \cup {Draw(TRUE, p, low, q, dispute) :
                 p \in SimPatients, low \in lows, dispute \in BOOLEAN,
                 q \in QualityScores \cup HighQualityScores,
                 b \in coins \ {FALSE}}

\* will_publish ...; ok = engine.publish_history(...); if ok: ...
PublishAttempt(d) ==
    LET clinic == clinics[TurnClinic]
        will_publish ==
            ~clinic.free_ride /\ (needs_credits(clinic) \/ d.coin)
    IN  /\ sim.pc = "publish"
        /\ IF will_publish
           THEN /\ d.quality \in (IF clinic.low_quality /\ d.low
                                  THEN QualityScores ELSE HighQualityScores)
                /\ publish_history(TurnClinic,
                                   HistoryEntry(d.pid, TurnClinic, d.quality),
                                   d.dispute)
                /\ sim' = [sim EXCEPT
                             !.pc = "optout",
                             !.total_publishes =
                                 IF call'.ok THEN @ + 1 ELSE @]
           ELSE /\ sim' = [sim EXCEPT !.pc = "optout"]
                /\ UNCHANGED <<cfg, clinics, patient_histories, access_log,
                               pool_balance, now, call>>

\* The draw of the opt-out decision, made only when credits are short.
OptOutDraws ==
    {Draw(b, "", FALSE, 0, FALSE) :
        b \in IF clinics[TurnClinic].credits < OptOutCredits
              THEN BOOLEAN ELSE {FALSE}}

\* if clinic.credits < 3 and random.random() < 0.05: ...
OptOutDecision(d) ==
    /\ sim.pc = "optout"
    /\ IF d.coin /\ ENABLED opt_out(TurnClinic)
       THEN opt_out(TurnClinic)
       ELSE UNCHANGED <<cfg, clinics, patient_histories, access_log,
                        pool_balance, now, call>>
    /\ sim' = Advance(clinics', sim.turn)

\* engine.distribute_pool(), the last statement of a round
EndRound ==
    /\ sim.pc = "distribute"
    /\ distribute_pool
    /\ sim' = [sim EXCEPT !.pc = "decay", !.round = @ + 1]

\* The loop is over: the result record is built and returned.
Return ==
    /\ sim.pc = "decay"
    /\ sim.round = sim.rounds
    /\ sim' = [sim EXCEPT !.pc = "done", !.result = Result]
    /\ UNCHANGED <<cfg, clinics, patient_histories, access_log, pool_balance,
                   now, call>>

\* time.time() jumps between the issue of a token and its use, the one
\* place where simulate() depends on how much time has passed.
Jump ==
    /\ sim.pc = "reading"
    /\ now < MaxJumps * ClockJump
    /\ now' = now + ClockJump
    /\ UNCHANGED <<cfg, clinics, patient_histories, access_log, pool_balance,
                   call, sim>>

\* The draws the statement simulate() is at can make.
DrawsAt ==
    CASE sim.pc = "read"    -> ReadDraws
      [] sim.pc = "publish" -> PublishDraws
      [] sim.pc = "optout"  -> OptOutDraws
      [] OTHER              -> {NoDraw}

\* One statement of simulate(), its draws being d.
Statement(d) ==
    \/ StartRound
    \/ IssueToken(d)
    \/ ReadAttempt
    \/ PublishAttempt(d)
    \/ OptOutDecision(d)
    \/ EndRound
    \/ Return

SimStartRound == StartRound /\ UNCHANGED <<steps, twin>>

SimIssueToken == (\E d \in ReadDraws : IssueToken(d)) /\ UNCHANGED <<steps, twin>>

SimReadAttempt == ReadAttempt /\ UNCHANGED <<steps, twin>>

SimPublishAttempt ==
    /\ sim.pc = "publish"
    /\ \E d \in PublishDraws : PublishAttempt(d)
    /\ UNCHANGED <<steps, twin>>

SimOptOutDecision ==
    /\ sim.pc = "optout"
    /\ \E d \in OptOutDraws : OptOutDecision(d)
    /\ UNCHANGED <<steps, twin>>

SimEndRound == EndRound /\ UNCHANGED <<steps, twin>>

SimReturn == Return /\ UNCHANGED <<steps, twin>>

SimJump == Jump /\ UNCHANGED <<steps, twin>>

SimNext ==
    \/ SimStartRound
    \/ SimIssueToken
    \/ SimReadAttempt
    \/ SimPublishAttempt
    \/ SimOptOutDecision
    \/ SimEndRound
    \/ SimReturn
    \/ SimJump

SimSpec == SimInit /\ [][SimNext]_vars

(***************************************************************************)
(* simulate(n_clinics=1, n_patients=1, rounds=4, starter_credits=21): one  *)
(* clinic, which is no free rider, over rounds enough for four disputes to *)
(* bring its reputation under 0.7.                                         *)
(***************************************************************************)

ExitRounds == 4
ExitStarterCredits == 21

ExitInit ==
    /\ cfg = SimConfig
    /\ \E low \in BOOLEAN :
          clinics = [c \in {ClinicOrder[1]} |->
                       NewClinic(ExitStarterCredits, FALSE, low)]
    /\ patient_histories = [p \in Patients |-> <<>>]
    /\ access_log = <<>>
    /\ pool_balance = 0
    /\ now = 0
    /\ call = PlainCall("init")
    /\ steps = 0
    /\ sim = [SimAt("decay") EXCEPT !.rounds = ExitRounds]
    /\ twin = TwinOff

ExitSpec == ExitInit /\ [][SimNext]_vars

(***************************************************************************)
(* Two runs of simulate() with the same configuration and the same seed,   *)
(* side by side: whenever the first run has executed a statement, the      *)
(* second executes the same statement with the same draws.  The second run *)
(* starts at another time of day, and in each run the clock jumps, or does *)
(* not, on its own.                                                        *)
(***************************************************************************)

\* Rounds of each of the two runs.
TwinRounds == 1

\* time.time() at the start of the second run, the first starting at 0.
StartTimes == {1}

\* The state of the engine.
Engine ==
    [clinics |-> clinics, patient_histories |-> patient_histories,
     access_log |-> access_log, pool_balance |-> pool_balance]

\* The state of a run: its engine, its clock, its last call and the
\* locals of simulate().
Run == [engine |-> Engine, now |-> now, call |-> call, sim |-> sim]

TwinInit ==
    /\ Registered(TwinRounds)
    /\ \E t \in StartTimes :
          twin = [run |-> 1, ahead |-> FALSE, draw |-> NoDraw,
                  other |-> [Run EXCEPT !.now = t]]

\* A statement of the first run.
First ==
    /\ twin.run = 1 /\ ~twin.ahead
    /\ \E d \in DrawsAt :
          /\ Statement(d)
          /\ twin' = [twin EXCEPT !.ahead = TRUE, !.draw = d]
    /\ UNCHANGED steps

\* The same statement of the second run, drawing what the first drew.
Second ==
    /\ twin.run = 2 /\ twin.ahead
    /\ twin.draw \in DrawsAt
    /\ Statement(twin.draw)
    /\ twin' = [twin EXCEPT !.ahead = FALSE, !.draw = NoDraw]
    /\ UNCHANGED steps

\* Attention moves to the other run, which is to execute next.
Switch ==
    /\ twin.run # 0
    /\ twin.ahead = (twin.run = 1)
    /\ twin' = [twin EXCEPT !.run = 3 - @, !.other = Run]
    /\ clinics' = twin.other.engine.clinics
    /\ patient_histories' = twin.other.engine.patient_histories
    /\ access_log' = twin.other.engine.access_log
    /\ pool_balance' = twin.other.engine.pool_balance
    /\ now' = twin.other.now
    /\ call' = twin.other.call
    /\ sim' = twin.other.sim
    /\ UNCHANGED <<cfg, steps>>

\* The clock of the run about to use its token jumps.
TwinJump ==
    /\ twin.ahead = (twin.run = 2)
    /\ Jump
    /\ UNCHANGED <<steps, twin>>

TwinNext ==
    \/ First
    \/ Second
    \/ Switch
    \/ TwinJump

TwinSpec == TwinInit /\ [][TwinNext]_vars

(***************************************************************************)
(* The properties.                                                         *)
(***************************************************************************)

\* The entries a caller hands to publish_history.
Entries == {HistoryEntry(p, a, q) :
               p \in Patients, a \in DOMAIN clinics, q \in QualityScores}

\* read_history(c, token) takes its refusing branch.
ReadRefused(c, token) ==
    ~can_read(c, token) \/ clinics[c].credits < cfg.read_cost

\* publish_history(c, ...) takes its refusing branch.
PublishRefused(c) ==
    ~clinics[c].opted_in \/ clinics[c].credits < cfg.publish_stake

\* The credits of all clinics of the table cl.
TotalCredits(cl) == SumOver([c \in DOMAIN cl |-> cl[c].credits], DOMAIN cl)

\* C1: whatever calls have been made, in whatever order, on an engine with
\* non-negative amounts and clinics registered with non-negative credits,
\* no clinic's credit balance is negative.
C1_CreditsNonNegative == \A c \in DOMAIN clinics : clinics[c].credits >= 0

\* C1's case: a dispute has slashed a clinic that held less than the slash
\* amount, and its balance stopped at zero.
C1_Witness ==
    /\ call.op = "publish_history" /\ call.ok
    /\ \E c \in DOMAIN clinics :
          /\ clinics[c].reputation < InitialReputation
          /\ clinics[c].credits = 0
          /\ cfg.slash_amount > 1

\* C2: a read_history call for which can_read is false, or whose clinic
\* holds less than read_cost, returns the empty list and changes no
\* clinic, nor the pool, the access log or any history.
C2_RefusedReadChangesNothing ==
    [][call'.op = "read_history"
       => \A token \in IssuedTokens :
             LET c == call'.clinic_id IN
             (ReadRefused(c, token) /\ read_history(c, token))
             => /\ call'.returned = <<>>
                /\ ~call'.ok
                /\ UNCHANGED <<clinics, pool_balance, access_log,
                               patient_histories>>]_vars

\* C2's case: a read was refused to an opted-in clinic that meets
\* min_credits_to_read but cannot pay read_cost.
C2_Witness ==
    /\ call.op = "read_history" /\ ~call.ok
    /\ clinics[call.clinic_id].opted_in
    /\ clinics[call.clinic_id].credits >= cfg.min_credits_to_read
    /\ clinics[call.clinic_id].credits < cfg.read_cost
    /\ clinics[call.clinic_id].credits > 0

C4_RefusedPublishChangesNothing ==
    [][call'.op = "publish_history"
       => \A e \in Entries : \A draw \in BOOLEAN :
             LET c == call'.clinic_id IN
             (publish_history(c, e, draw) /\ PublishRefused(c))
             => /\ ~call'.ok
                /\ UNCHANGED <<clinics, patient_histories, access_log,
                               pool_balance>>]_vars

\* C4's case, the scenario of the specification: a clinic with 1 credit has
\* tried to publish under a stake of 2.
C4_Witness ==
    /\ call.op = "publish_history" /\ ~call.ok
    /\ cfg.publish_stake = 2
    /\ clinics[call.clinic_id].opted_in
    /\ clinics[call.clinic_id].credits = 1
    /\ \A p \in Patients : patient_histories[p] = <<>>

\* C5: a publish_history call that is not refused appends the entry, with
\* its stake set to publish_stake, at the end of its patient's history,
\* raises the publisher's contribution counter by one and changes the
\* publisher's balance by publish_reward - publish_stake, less the slash
\* when the dispute check penalises the publisher.
C5_PublishStakesCountsAppends ==
    [][\A e \in Entries : \A draw \in BOOLEAN :
          (/\ call'.op = "publish_history"
           /\ publish_history(call'.clinic_id, e, draw)
           /\ ~PublishRefused(call'.clinic_id))
          => LET c       == call'.clinic_id
                 old     == patient_histories[e.patient_id]
                 new     == patient_histories'[e.patient_id]
                 paid    == clinics[c].credits + cfg.publish_reward
                               - cfg.publish_stake
                 slashed == /\ draw
                            /\ e.quality_score < cfg.dispute_threshold
                            /\ e.author_clinic_id = c
             IN  /\ call'.ok
                 /\ Len(new) = Len(old) + 1
                 /\ SubSeq(new, 1, Len(old)) = old
                 /\ new[Len(new)].stake = cfg.publish_stake
                 /\ new[Len(new)] = [e EXCEPT !.stake = cfg.publish_stake]
                 /\ \A p \in Patients \ {e.patient_id} :
                       patient_histories'[p] = patient_histories[p]
                 /\ clinics'[c].last_round_contribution =
                       clinics[c].last_round_contribution + 1
                 /\ clinics'[c].credits =
                       IF slashed THEN paid - Min(cfg.slash_amount, paid)
                       ELSE paid]_vars

\* C5's case: a second entry has been published for a patient, by a clinic
\* that the dispute check did not penalise.
C5_Witness ==
    /\ call.op = "publish_history" /\ call.ok
    /\ cfg.publish_stake > 0
    /\ clinics[call.clinic_id].last_round_contribution = 2
    /\ clinics[call.clinic_id].reputation = InitialReputation
    /\ \E p \in Patients :
          /\ Len(patient_histories[p]) = 2
          /\ patient_histories[p][1] # patient_histories[p][2]

\* C6: after every call of distribute_pool the pool is empty and every
\* contribution counter is zero, whether or not any clinic contributed.
C6_PoolEmptyAfterDistribute ==
    call.op = "distribute_pool"
    => /\ pool_balance = 0
       /\ \A c \in DOMAIN clinics : clinics[c].last_round_contribution = 0

\* C7: a call of distribute_pool adds to the clinics, in total, no more than
\* the pool held before it, takes credits from no clinic, and empties the
\* pool whenever it pays out, so that what truncation left over is gone.
C7_SharesWithinPool ==
    [][call'.op = "distribute_pool"
       => /\ TotalCredits(clinics') - TotalCredits(clinics) <= pool_balance
          /\ \A c \in DOMAIN clinics : clinics'[c].credits >= clinics[c].credits
          /\ (Contributors # {} /\ pool_balance > 0) => pool_balance' = 0]_vars

\* C7's case: a pool of 8 has been split among three clinics with one
\* contribution each: 2 credits to each, 2 credits lost with the pool.
C7_Witness ==
    /\ call.op = "distribute_pool"
    /\ pool_balance = 0
    /\ Len(access_log) = 8
    /\ Len(patient_histories["P0000"]) = 3
    /\ \A c \in DOMAIN clinics : clinics[c].credits = 12

\* C8: when the pool is positive and some clinic contributed,
\* distribute_pool credits each contributor exactly
\* floor(pool_balance * contribution / total_contributions), and the
\* others nothing.
C8_SharesAreExactFloors ==
    [][(call'.op = "distribute_pool" /\ Contributors # {} /\ pool_balance > 0)
       => LET total == SumOver([c \in DOMAIN clinics |->
                                  clinics[c].last_round_contribution],
                               DOMAIN clinics)
          IN  \A c \in DOMAIN clinics :
                 clinics'[c].credits =
                    clinics[c].credits
                    + (pool_balance * clinics[c].last_round_contribution)
                         \div total]_vars

\* C9, as claimed: after decay_credits the balance of every registered
\* clinic, opted in or opted out, is max(0, balance before - decay_per_round).
C9_DecayOfEveryClinic ==
    [][call'.op = "decay_credits"
       => \A c \in DOMAIN clinics :
             clinics'[c].credits =
                Max(0, clinics[c].credits - cfg.decay_per_round)]_vars

\* C9, as amended: after decay_credits the balance of every opted-in clinic
\* is max(0, balance before - decay_per_round), and the balance of every
\* opted-out clinic is what it was.
C9_DecayOfOptedInClinics ==
    [][call'.op = "decay_credits"
       => \A c \in DOMAIN clinics :
             clinics'[c] =
                [clinics[c] EXCEPT
                   !.credits = IF clinics[c].opted_in
                               THEN Max(0, @ - cfg.decay_per_round)
                               ELSE @]]_vars

\* C9's case: decay_credits has run over an opted-out clinic that holds
\* credits and over an opted-in clinic whose balance it floored at zero.
C9_Witness ==
    /\ call.op = "decay_credits"
    /\ cfg.decay_per_round > 1
    /\ \E c \in DOMAIN clinics : ~clinics[c].opted_in /\ clinics[c].credits > 0
    /\ \E c \in DOMAIN clinics : clinics[c].opted_in /\ clinics[c].credits = 0

\* The entry a successful publish has just appended, if the step is one.
JustPublished ==
    {patient_histories'[p][Len(patient_histories'[p])] :
        p \in {q \in Patients : patient_histories'[q] # patient_histories[q]}}

\* C10: every clinic's reputation starts at 1.0, never exceeds 1.0 and
\* never increases; it changes only in a publish_history call whose entry,
\* authored by that clinic, has a quality below the dispute threshold.
C10_ReputationOnlyFalls ==
    [][\A c \in DOMAIN clinics :
          /\ steps = 0 => clinics[c].reputation = InitialReputation
          /\ clinics'[c].reputation <= clinics[c].reputation
          /\ clinics'[c].reputation <= InitialReputation
          /\ clinics'[c].reputation # clinics[c].reputation
             => /\ call'.op = "publish_history" /\ call'.ok
                /\ \E e \in JustPublished :
                      /\ e.author_clinic_id = c
                      /\ e.quality_score < cfg.dispute_threshold]_vars

\* C10's case: two disputes have lowered a clinic's reputation twice.
C10_Witness ==
    \E c \in DOMAIN clinics :
       /\ clinics[c].reputation < (InitialReputation * 9) \div 10
       /\ clinics[c].reputation > 0

\* C11: a read_history call succeeds only for the clinic the token was
\* issued to and only at a time strictly before the token's expires_at: a
\* read by another clinic, or at or after expires_at, never succeeds.
C11_TokenGrantsOnlyBeforeExpiry ==
    [][(call'.op = "read_history" /\ call'.ok)
       => \A token \in IssuedTokens :
             read_history(call'.clinic_id, token)
             => /\ token.issued_to_clinic_id = call'.clinic_id
                /\ now < token.expires_at]_vars

\* s is an initial part of t.
IsPrefix(s, t) == Len(s) <= Len(t) /\ SubSeq(t, 1, Len(s)) = s

\* C15: every patient's history and the access log only grow at the end:
\* what they hold before a step is an initial part of what they hold after
\* it, so no stored entry is removed, moved or changed by any operation.
C15_HistoriesAndLogAppendOnly ==
    [][/\ \A p \in Patients :
             IsPrefix(patient_histories[p], patient_histories'[p])
       /\ IsPrefix(access_log, access_log')]_vars

\* C15's case: a patient's history of two entries and a logged read of it
\* that returned both.
C15_Witness ==
    /\ call.op = "read_history" /\ call.ok
    /\ Len(call.returned) = 2
    /\ \E p \in Patients : patient_histories[p] = call.returned
    /\ Len(access_log) = 1

\* C17: when the dispute check runs on a published entry, an entry with
\* quality below dispute_threshold costs its author min(slash_amount, the
\* author's balance at that moment) credits and multiplies the author's
\* reputation by 0.9; an entry with quality at or above the threshold
\* changes no clinic's credits or reputation.
C17_DisputePenalty ==
    [][call'.op = "publish_history"
       => \A e \in Entries :
             LET c    == call'.clinic_id
                 a    == e.author_clinic_id
                 paid == [clinics EXCEPT
                            ![c].credits =
                                @ - cfg.publish_stake + cfg.publish_reward,
                            ![c].last_round_contribution = @ + 1]
             IN  (publish_history(c, e, TRUE) /\ ~PublishRefused(c))
                 => IF e.quality_score < cfg.dispute_threshold
                    THEN /\ clinics'[a].credits =
                               paid[a].credits
                               - Min(cfg.slash_amount, paid[a].credits)
                         /\ clinics'[a].reputation =
                               (clinics[a].reputation * 9) \div 10
                         /\ \A o \in DOMAIN clinics \ {a} : clinics'[o] = paid[o]
                    ELSE clinics' = paid]_vars

\* C17's case: under the simulation's configuration a clinic with 5
\* credits has published a low-quality entry of its own and been slashed
\* the full slash_amount: 5 - 2 + 4 - 6 = 1, reputation 0.9.
C17_Witness ==
    /\ cfg = SimConfig
    /\ call.op = "publish_history" /\ call.ok
    /\ clinics[call.clinic_id].credits = 1
    /\ clinics[call.clinic_id].last_round_contribution = 1
    /\ clinics[call.clinic_id].reputation = (InitialReputation * 9) \div 10

\* C19: a publish_history call changes the credits, reputation and
\* contribution counter of the calling clinic only, whatever the entry's
\* author_clinic_id: no other clinic's record changes.
C19_PublishTouchesCallerOnly ==
    [][call'.op = "publish_history"
       => \A o \in DOMAIN clinics \ {call'.clinic_id} :
             clinics'[o] = clinics[o]]_vars

\* Credits held by the clinics of cl together with a pool.
Supply(cl, pool) == TotalCredits(cl) + pool

\* C20: the total supply (all clinics' credits plus the pool) grows in no
\* step but a successful publish_history, where it changes by exactly
\* publish_reward - publish_stake less the slash of a dispute; the pool is
\* never negative and grows only in a successful read_history, by at most
\* read_cost.
C20_CreditConservation ==
    [][/\ pool_balance >= 0 /\ pool_balance' >= 0
       /\ ~(call'.op = "publish_history" /\ call'.ok)
          => Supply(clinics', pool_balance') <= Supply(clinics, pool_balance)
       /\ call'.op = "publish_history"
          => \A e \in Entries : \A draw \in BOOLEAN :
                LET c    == call'.clinic_id
                    a    == e.author_clinic_id
                    held == IF a = c
                            THEN clinics[a].credits - cfg.publish_stake
                                    + cfg.publish_reward
                            ELSE clinics[a].credits
                    slash == IF draw /\ e.quality_score < cfg.dispute_threshold
                             THEN Min(cfg.slash_amount, held)
                             ELSE 0
                IN  (publish_history(c, e, draw) /\ ~PublishRefused(c))
                    => Supply(clinics', pool_balance')
                          = Supply(clinics, pool_balance)
                            + cfg.publish_reward - cfg.publish_stake - slash
       /\ pool_balance' > pool_balance
          => /\ call'.op = "read_history" /\ call'.ok
             /\ pool_balance' - pool_balance <= cfg.read_cost]_vars

\* C20's case: a read has fed the pool, a publish has earned a contribution
\* and distribute_pool has paid the pool out to the publisher.
C20_Witness ==
    /\ call.op = "distribute_pool"
    /\ pool_balance = 0
    /\ Len(access_log) = 1
    /\ \E p \in Patients : Len(patient_histories[p]) = 1
    /\ \E c \in DOMAIN clinics : clinics[c].credits > 5

\* The clinics of the table cl that are opted in.
OptedIn(cl) == {c \in DOMAIN cl : cl[c].opted_in}

\* The calls simulate() makes for a clinic in its turn.
ClinicOps == {"read_history", "publish_history", "opt_out"}

\* C12: in a simulation a clinic whose opted_in flag is false stays opted
\* out; no read, publish or opt-out is made for a clinic that is opted
\* out, the clinic simulate() is dealing with is always opted in; and
\* opt_in_rate() never increases.
C12_OptOutIsPermanent ==
    [][/\ \A c \in DOMAIN clinics :
             ~clinics[c].opted_in => ~clinics'[c].opted_in
       /\ (call' # call /\ call'.op \in ClinicOps)
          => clinics[call'.clinic_id].opted_in
       /\ sim'.turn # 0 => clinics'[ClinicOrder[sim'.turn]].opted_in
       /\ OptedIn(clinics') # OptedIn(clinics)
          => FloatLeq(FloatDiv(Cardinality(OptedIn(clinics')),
                               Cardinality(DOMAIN clinics')),
                      FloatDiv(Cardinality(OptedIn(clinics)),
                               Cardinality(DOMAIN clinics)))]_vars

\* C12's case: in a later round than the one in which the first clinic
\* opted out, the second clinic, still opted in, has its turn.
C12_Witness ==
    /\ sim.round >= 1
    /\ sim.turn = 2 /\ sim.pc = "publish"
    /\ ~clinics[ClinicOrder[1]].opted_in
    /\ clinics[ClinicOrder[2]].opted_in
    /\ call.op = "read_history"

\* The number of entries published so far.
PublishedEntries ==
    SumOver([p \in Patients |-> Len(patient_histories[p])], Patients)

\* C13: in the record simulate() returns, total_reads is the number of
\* read_history calls that succeeded, which is the length of the access
\* log, and total_publishes is the number of publish_history calls that
\* returned success.
C13_TotalsCountSuccesses ==
    sim.pc = "done"
    => /\ sim.result.total_reads = Len(access_log)
       /\ sim.result.total_publishes = PublishedEntries

\* The place of a call in a round: the clinic's position, then read before
\* publish before opt-out.
Rank(c) ==
    LET i == CHOOSE j \in 1..Len(ClinicOrder) : ClinicOrder[j] = c.clinic_id
        k == CASE c.op = "read_history"    -> 1
               [] c.op = "publish_history" -> 2
               [] c.op = "opt_out"         -> 3
    IN  3 * i + k

\* C16: the calls of a simulation come in rounds: decay_credits follows
\* the start or a distribute_pool and nothing else; a call for a clinic is
\* made for a clinic that is opted in, follows decay_credits or a call of
\* the same round that comes earlier in the order (clinics in their order,
\* read before publish before opt-out); distribute_pool follows
\* decay_credits or a clinic's call, never the start or a distribute_pool.
C16_RoundOrder ==
    [][call' # call
       => /\ call'.op \in ClinicOps \cup {"decay_credits", "distribute_pool"}
          /\ call'.op = "decay_credits"
             => call.op \in {"init", "distribute_pool"}
          /\ call'.op \in ClinicOps
             => /\ clinics[call'.clinic_id].opted_in
                /\ \/ call.op = "decay_credits"
                   \/ call.op \in ClinicOps /\ Rank(call) < Rank(call')
          /\ call'.op = "distribute_pool"
             => call.op \in ClinicOps \cup {"decay_credits"}]_vars

\* C16's case: the second round has ended; in the course of the run a read
\* was logged, an entry published and a clinic opted out.
C16_Witness ==
    /\ call.op = "distribute_pool"
    /\ sim.round = 2
    /\ access_log # <<>>
    /\ PublishedEntries > 0
    /\ \E c \in DOMAIN clinics : ~clinics[c].opted_in

\* C18: once a clinic is opted out, no step changes its credits or its
\* reputation: not distribute_pool, which pays it no share, nor
\* decay_credits, nor any other call.
C18_OptedOutClinicUntouched ==
    [][\A c \in DOMAIN clinics :
          ~clinics[c].opted_in
          => /\ clinics'[c].credits = clinics[c].credits
             /\ clinics'[c].reputation = clinics[c].reputation]_vars

\* An engine state without the times written to the access log.
TimeFree(e) ==
    [e EXCEPT !.access_log = [i \in DOMAIN @ |-> <<@[i][2], @[i][3]>>]]

\* Both runs have executed the same statements; the first is in the
\* variables.
InStep == twin.run = 1 /\ ~twin.ahead

====
